---- MODULE Spec2Model ----
(***************************************************************************)
(* pglike_todo: the todos table, the four SQL statements of main.go, the   *)
(* four HTTP handlers and the lofigui output buffer they render through.   *)
(*                                                                         *)
(* Strings that the code inspects (titles, the id form field) are          *)
(* sequences of one-character strings.  The created_at column is written   *)
(* by the INSERT default only and is read or written by no statement of    *)
(* main.go; it is not part of the rows here.                               *)
(*                                                                         *)
(* Every goroutine of the HTTP server is a process p.  A handler is split  *)
(* at the calls that touch state shared between goroutines: the SQL        *)
(* statement (one atomic step of the engine) and each call of the lofigui  *)
(* package (one atomic step each).                                         *)
(***************************************************************************)
EXTENDS Integers, Sequences, FiniteSets, TLC

\* ---------------------------------------------------------------- bounds
MaxId == 3                     \* the id sequence hands out 1..MaxId
TitleWidth == 500              \* title VARCHAR(500)

\* two goroutines of the HTTP server, each serving one request at a time
Procs == {"g1", "g2"}

\* ------------------------------------------------------------ characters
DigitChars == <<"0", "1", "2", "3", "4", "5", "6", "7", "8", "9">>

IsDigit(c) == \E i \in 1..10 : DigitChars[i] = c

DigitVal(c) == (CHOOSE i \in 1..10 : DigitChars[i] = c) - 1

RECURSIVE ParseUint(_, _)
\* strconv.ParseUint(s, 10, 64) over the remaining characters, acc so far
ParseUint(s, acc) ==
    IF s = <<>> THEN [ok |-> TRUE, val |-> acc]
    ELSE IF ~IsDigit(Head(s)) THEN [ok |-> FALSE, val |-> 0]
    ELSE ParseUint(Tail(s), acc * 10 + DigitVal(Head(s)))

\* ParseInt with its error dropped: id, _ := strconv.ParseInt(...)
ParseIntLenient(s) ==
    IF s = <<>> THEN [ok |-> TRUE, val |-> 0]
    ELSE LET neg  == Head(s) = "-"
             body == IF Head(s) \in {"+", "-"} THEN Tail(s) ELSE s
             u    == ParseUint(body, 0)
         IN  IF body = <<>> \/ ~u.ok THEN [ok |-> TRUE, val |-> 0]
             ELSE [ok |-> TRUE, val |-> IF neg THEN 0 - u.val ELSE u.val]

\* strconv.ParseInt(s, 10, 64): optional sign, then at least one digit
ParseInt(s) ==
    IF s = <<>> THEN [ok |-> FALSE, val |-> 0]
    ELSE LET neg  == Head(s) = "-"
             body == IF Head(s) \in {"+", "-"} THEN Tail(s) ELSE s
             u    == ParseUint(body, 0)
         IN  IF body = <<>> \/ ~u.ok THEN [ok |-> FALSE, val |-> 0]
             ELSE [ok |-> TRUE, val |-> IF neg THEN 0 - u.val ELSE u.val]

EscapeChar(c) ==
    CASE c = "<"  -> "&lt;"
      [] c = ">"  -> "&gt;"
      [] c = "&"  -> "&amp;"
      [] c = "'"  -> "&#39;"
      [] c = "\"" -> "&#34;"
      [] OTHER    -> c

\* html.EscapeString: every character replaced by its entity, in place
EscapeString(s) == [i \in DOMAIN s |-> EscapeChar(s[i])]

\* ---------------------------------------------------------------- inputs
LongTitle == [i \in 1..(TitleWidth + 1) |-> "a"]

\* form values for title: empty, one that fits the column and needs escaping,
\* one that is a character too wide
TitleInputs == {<<>>, <<"<", "b">>, LongTitle}

\* form values for id: empty, not a number, signed, and the ids of the rows
IdInputs ==
    {<<>>, <<"1", "x">>, <<"+", "1">>, <<"-", "1">>}
        \cup {<<DigitChars[n + 1]>> : n \in 1..MaxId}

\* url.Values after ParseForm: the set of <<field, value>> pairs present
Both == {<<"title", <<"<", "b">>>>, <<"id", <<"1">>>>}

\* r.FormValue(key): "" when the field is missing
FormValue(form, key) ==
    IF \E kv \in form : kv[1] = key
    THEN (CHOOSE kv \in form : kv[1] = key)[2]
    ELSE <<>>

\* requests by route: a POST with the field the handler reads (or without
\* it, or with the other one too), and other methods
IndexRequests ==
    {[route |-> "/", method |-> m, path |-> pa, form |-> {}] :
        m \in {"GET", "POST"}, pa \in {"/", "/other"}}

CreateRequests ==
    {[route |-> "/create", method |-> "POST", path |-> "/create", form |-> f] :
        f \in {{}} \cup {{<<"title", t>>} : t \in TitleInputs}}
        \cup {[route |-> "/create", method |-> m, path |-> "/create", form |-> Both] :
                m \in {"GET", "PUT"}}

IdRequests(ro) ==
    {[route |-> ro, method |-> "POST", path |-> ro, form |-> f] :
        f \in {{}, Both} \cup {{<<"id", i>>} : i \in IdInputs}}
        \cup {[route |-> ro, method |-> m, path |-> ro, form |-> Both] :
                m \in {"GET", "PUT"}}

ToggleRequests == IdRequests("/toggle")

DeleteRequests == IdRequests("/delete")

Requests == IndexRequests \cup CreateRequests \cup ToggleRequests \cup DeleteRequests

\* ----------------------------------------------------------------- store
\* rows of todos: id SERIAL PRIMARY KEY, title VARCHAR(500) NOT NULL,
\* completed BOOLEAN DEFAULT FALSE
Ids(tbl) == {r.id : r \in tbl}

Row(tbl, i) == CHOOSE r \in tbl : r.id = i

\* INSERT of the escaped title: escaping moved from the page to the store
createTodoEscaped(tbl, s, title) ==
    IF Len(title) > TitleWidth
    THEN [table |-> tbl, seq |-> s + 1, err |-> TRUE]
    ELSE [table |-> tbl \cup {[id |-> s + 1, title |-> EscapeString(title),
                               completed |-> FALSE]},
          seq   |-> s + 1,
          err   |-> FALSE]

\* INSERT with the id taken from the number of rows, not from the sequence
createTodoCountId(tbl, s, title) ==
    IF Len(title) > TitleWidth
    THEN [table |-> tbl, seq |-> s + 1, err |-> TRUE]
    ELSE [table |-> tbl \cup {[id |-> Cardinality(tbl) + 1, title |-> title,
                               completed |-> FALSE]},
          seq   |-> s + 1,
          err   |-> FALSE]

\* INSERT INTO todos (title) VALUES ($1): nextval of the id sequence, then
\* the row; a title wider than the column is rejected after nextval
createTodo(tbl, s, title) ==
    IF Len(title) > TitleWidth
    THEN [table |-> tbl, seq |-> s + 1, err |-> TRUE]
    ELSE [table |-> tbl \cup {[id |-> s + 1, title |-> title, completed |-> FALSE]},
          seq   |-> s + 1,
          err   |-> FALSE]

\* UPDATE without its WHERE clause
toggleTodoNoWhere(tbl, i) ==
    [table |-> {[r EXCEPT !.completed = ~r.completed] : r \in tbl}, err |-> FALSE]

\* UPDATE ... SET completed = TRUE WHERE id = $1
toggleTodoSetTrue(tbl, i) ==
    [table |-> {IF r.id = i THEN [r EXCEPT !.completed = TRUE] ELSE r : r \in tbl},
     err   |-> FALSE]

\* toggleTodo that reports sql.ErrNoRows when RowsAffected is 0
toggleTodoStrict(tbl, i) ==
    [table |-> {IF r.id = i THEN [r EXCEPT !.completed = ~r.completed] ELSE r : r \in tbl},
     err   |-> i \notin {r.id : r \in tbl}]

\* UPDATE todos SET completed = NOT completed WHERE id = $1
toggleTodo(tbl, i) ==
    [table |-> {IF r.id = i THEN [r EXCEPT !.completed = ~r.completed] ELSE r : r \in tbl},
     err   |-> FALSE]

\* DELETE ... WHERE id <= $1
deleteTodoUpTo(tbl, i) ==
    [table |-> {r \in tbl : r.id > i}, err |-> FALSE]

\* DELETE FROM todos WHERE id = $1
deleteTodo(tbl, i) ==
    [table |-> {r \in tbl : r.id # i}, err |-> FALSE]

RECURSIVE OrderById(_)
\* ORDER BY id
OrderById(tbl) ==
    IF tbl = {} THEN <<>>
    ELSE LET first == CHOOSE r \in tbl : \A q \in tbl : r.id <= q.id
         IN  <<first>> \o OrderById(tbl \ {first})

\* rows.Scan(&t.ID, &t.Title, &t.Completed) with Completed int64
Scan(r) == [ID |-> r.id, Title |-> r.title, Completed |-> IF r.completed THEN 1 ELSE 0]

\* SELECT id, title, completed FROM todos ORDER BY id, scanned row by row
SelectTodos(tbl) == LET o == OrderById(tbl) IN [j \in DOMAIN o |-> Scan(o[j])]

\* ------------------------------------------------------------- fragments
\* the <div class="box"> fragment listTodos formats for one row
RowFragment(t) ==
    [kind    |-> "row",
     id      |-> t.ID,
     checked |-> IF t.Completed = 1 THEN "checked" ELSE "",
     class   |-> IF t.Completed = 1 THEN "completed" ELSE "",
     title   |-> EscapeString(t.Title)]

EmptyFragment == [kind |-> "markdown", text |-> "*No todos yet. Add one below!*"]

ErrorFragment == [kind |-> "printf", text |-> "Error listing todos"]

FormFragment == [kind |-> "html", text |-> "create form"]

\* ----------------------------------------------------------------- state
VARIABLES
    table,      \* the rows of todos
    seq,        \* last value of the id sequence
    buf,        \* lofigui's package-level output buffer
    pc,         \* per goroutine: where its handler stands
    title,      \* per goroutine: handleCreate's local title
    id,         \* per goroutine: handleToggle's / handleDelete's local id
    todos,      \* per goroutine: listTodos' local slice
    k,          \* per goroutine: listTodos' position in the range loop
    listed,     \* per goroutine: db.Query of listTodos returned its rows
    resp,       \* the exchange completed last: request line, status code,
                \* statements run, and the sql.Result the code discards
    seen,       \* history, per goroutine: the row its id names as it was
                \* when the request arrived
    high        \* history: the highest id an INSERT has given to a row

vars == <<table, seq, buf, pc, title, id, todos, k, listed, resp, seen, high>>

storeVars == <<table, seq, high>>
localVars == <<title, id>>
indexVars == <<buf, todos, k, listed>>

NoResponse ==
    [route |-> "none", method |-> "none", code |-> 0, loc |-> "", stmts |-> 0, rows |-> 0,
     fault |-> FALSE]

\* a response: http.Redirect sets Location, http.Error and the page do not
Response(route, method, code, stmts, rows, fault) ==
    [route |-> route, method |-> method, code |-> code,
     loc   |-> IF code = 303 THEN "/" ELSE "",
     stmts |-> stmts, rows |-> rows, fault |-> fault]

Init ==
    /\ table = {}
    /\ seq = 0
    /\ buf = <<>>
    /\ pc = [p \in Procs |-> "idle"]
    /\ title = [p \in Procs |-> <<>>]
    /\ id = [p \in Procs |-> 0]
    /\ todos = [p \in Procs |-> <<>>]
    /\ k = [p \in Procs |-> 0]
    /\ listed = [p \in Procs |-> FALSE]
    /\ resp = NoResponse
    /\ seen = [p \in Procs |-> "none"]
    /\ high = 0

Max(S) == CHOOSE x \in S : \A y \in S : y <= x

\* the state of row i: "absent", "open" (completed = FALSE) or "done"
RowState(tbl, i) ==
    IF i \notin Ids(tbl) THEN "absent"
    ELSE IF Row(tbl, i).completed THEN "done" ELSE "open"

\* http.Redirect / http.Error / RenderTemplate: the handler returns
Respond(p, r, code, stmts, rows, fault) ==
    /\ pc' = [pc EXCEPT ![p] = "idle"]
    /\ resp' = Response(r, "POST", code, stmts, rows, fault)
    /\ title' = [title EXCEPT ![p] = <<>>]
    /\ id' = [id EXCEPT ![p] = 0]

\* the method guard answering 405 Method Not Allowed
RedirectNotAllowed(p, r) ==
    /\ pc' = [pc EXCEPT ![p] = "idle"]
    /\ resp' = Response(r.route, "other", 405, 0, 0, FALSE)
    /\ UNCHANGED localVars

\* the method guard: http.Redirect(w, r, "/", http.StatusSeeOther)
Redirect(p, r) ==
    /\ pc' = [pc EXCEPT ![p] = "idle"]
    /\ resp' = Response(r.route, "other", 303, 0, 0, FALSE)
    /\ UNCHANGED localVars

\* --------------------------------------------------------------- handlers
\* handleCreate without the title != "" test
handleCreateUnchecked(p, r) ==
    /\ pc[p] = "idle"
    /\ r.route = "/create"
    /\ UNCHANGED <<storeVars, indexVars>>
    /\ IF r.method # "POST" THEN Redirect(p, r)
       ELSE /\ seq + Cardinality({q \in Procs : pc[q] = "create"}) < MaxId
            /\ title' = [title EXCEPT ![p] = FormValue(r.form, "title")]
            /\ pc' = [pc EXCEPT ![p] = "create"]
            /\ UNCHANGED <<id, resp>>

\* handleCreate up to createTodo
handleCreate(p, r) ==
    /\ pc[p] = "idle"
    /\ r.route = "/create"
    /\ UNCHANGED <<storeVars, indexVars>>
    /\ IF r.method # "POST" THEN Redirect(p, r)
       ELSE IF FormValue(r.form, "title") = <<>> THEN Respond(p, "/create", 303, 0, 0, FALSE)
       ELSE /\ seq + Cardinality({q \in Procs : pc[q] = "create"}) < MaxId
            /\ title' = [title EXCEPT ![p] = FormValue(r.form, "title")]
            /\ pc' = [pc EXCEPT ![p] = "create"]
            /\ UNCHANGED <<id, resp>>

\* createTodo and the rest of handleCreate
CreateExec(p, fault) ==
    /\ pc[p] = "create"
    /\ LET res == createTodo(table, seq, title[p])
       IN  IF fault
           THEN /\ Respond(p, "/create", 500, 1, 0, TRUE)
                /\ UNCHANGED storeVars
           ELSE /\ table' = res.table
                /\ seq' = res.seq
                /\ high' = Max({high} \cup Ids(res.table))
                /\ Respond(p, "/create", IF res.err THEN 500 ELSE 303, 1,
                           IF res.err THEN 0 ELSE 1, FALSE)
    /\ UNCHANGED indexVars

\* handleToggle up to toggleTodo
handleToggle(p, r) ==
    /\ pc[p] = "idle"
    /\ r.route = "/toggle"
    /\ UNCHANGED <<storeVars, indexVars>>
    /\ IF r.method # "POST" THEN Redirect(p, r)
       ELSE LET n == ParseInt(FormValue(r.form, "id"))
            IN  IF ~n.ok THEN Respond(p, "/toggle", 400, 0, 0, FALSE)
                ELSE /\ id' = [id EXCEPT ![p] = n.val]
                     /\ pc' = [pc EXCEPT ![p] = "toggle"]
                     /\ UNCHANGED <<title, resp>>

\* toggleTodo and the rest of handleToggle
ToggleExec(p, fault) ==
    /\ pc[p] = "toggle"
    /\ LET res == toggleTodo(table, id[p])
       IN  IF fault
           THEN /\ Respond(p, "/toggle", 500, 1, 0, TRUE)
                /\ UNCHANGED table
           ELSE /\ table' = res.table
                /\ Respond(p, "/toggle", IF res.err THEN 500 ELSE 303, 1,
                           Cardinality({r \in table : r.id = id[p]}), FALSE)
    /\ UNCHANGED <<seq, high, indexVars>>

\* handleDelete up to deleteTodo
handleDelete(p, r) ==
    /\ pc[p] = "idle"
    /\ r.route = "/delete"
    /\ UNCHANGED <<storeVars, indexVars>>
    /\ IF r.method # "POST" THEN Redirect(p, r)
       ELSE LET n == ParseInt(FormValue(r.form, "id"))
            IN  IF ~n.ok THEN Respond(p, "/delete", 400, 0, 0, FALSE)
                ELSE /\ id' = [id EXCEPT ![p] = n.val]
                     /\ pc' = [pc EXCEPT ![p] = "delete"]
                     /\ UNCHANGED <<title, resp>>

\* deleteTodo and the rest of handleDelete
DeleteExec(p, fault) ==
    /\ pc[p] = "delete"
    /\ LET res == deleteTodo(table, id[p])
       IN  IF fault
           THEN /\ Respond(p, "/delete", 500, 1, 0, TRUE)
                /\ UNCHANGED table
           ELSE /\ table' = res.table
                /\ Respond(p, "/delete", IF res.err THEN 500 ELSE 303, 1,
                           Cardinality({r \in table : r.id = id[p]}), FALSE)
    /\ UNCHANGED <<seq, high, indexVars>>

\* handleIndex: the path check, then lofigui.Reset()
handleIndex(p, r) ==
    /\ pc[p] = "idle"
    /\ r.route = "/"
    /\ UNCHANGED <<storeVars, localVars, seen, todos, k, listed>>
    /\ IF r.path # "/"
       THEN /\ pc' = [pc EXCEPT ![p] = "idle"]
            /\ resp' = Response("/", "any", 404, 0, 0, FALSE)
            /\ UNCHANGED buf
       ELSE /\ buf' = <<>>
            /\ pc' = [pc EXCEPT ![p] = "query"]
            /\ UNCHANGED resp

\* listTodos: db.Query and the rows.Next loop filling todos
ListQuery(p, fault) ==
    /\ pc[p] = "query"
    /\ IF fault
       THEN /\ buf' = Append(buf, ErrorFragment)
            /\ pc' = [pc EXCEPT ![p] = "form"]
            /\ UNCHANGED <<todos, listed, k>>
       ELSE /\ todos' = [todos EXCEPT ![p] = SelectTodos(table)]
            /\ listed' = [listed EXCEPT ![p] = TRUE]
            /\ k' = [k EXCEPT ![p] = 1]
            /\ pc' = [pc EXCEPT ![p] = "emit"]
            /\ UNCHANGED buf
    /\ UNCHANGED <<storeVars, localVars, seen, resp>>

\* listTodos: the placeholder for no rows, or one lofigui.HTML per row
ListEmit(p) ==
    /\ pc[p] = "emit"
    /\ IF Len(todos[p]) = 0
       THEN /\ buf' = Append(buf, EmptyFragment)
            /\ pc' = [pc EXCEPT ![p] = "form"]
            /\ UNCHANGED k
       ELSE /\ buf' = Append(buf, RowFragment(todos[p][k[p]]))
            /\ k' = [k EXCEPT ![p] = IF k[p] = Len(todos[p]) THEN 0 ELSE k[p] + 1]
            /\ pc' = [pc EXCEPT ![p] = IF k[p] = Len(todos[p]) THEN "form" ELSE "emit"]
    /\ UNCHANGED <<storeVars, localVars, seen, todos, listed, resp>>

\* handleIndex: lofigui.HTML of the create form
IndexForm(p) ==
    /\ pc[p] = "form"
    /\ buf' = Append(buf, FormFragment)
    /\ pc' = [pc EXCEPT ![p] = "render"]
    /\ UNCHANGED <<storeVars, localVars, seen, todos, k, listed, resp>>

\* context["content"] of handleIndex: lofigui.Buffer()
Content == buf

\* handleIndex: context["content"] = lofigui.Buffer(), RenderTemplate
IndexRender(p) ==
    /\ pc[p] = "render"
    /\ pc' = [pc EXCEPT ![p] = "idle"]
    /\ resp' = Response("/", "any", 200, 1, 0, ~listed[p])
    /\ todos' = [todos EXCEPT ![p] = <<>>]
    /\ listed' = [listed EXCEPT ![p] = FALSE]
    /\ UNCHANGED <<storeVars, localVars, seen, buf, k>>

\* ------------------------------------------------------ specifications
\* the three writing handlers, run by both goroutines
Next ==
    \/ \E p \in Procs, r \in CreateRequests : handleCreate(p, r) /\ UNCHANGED seen
    \/ \E p \in Procs, r \in ToggleRequests : handleToggle(p, r) /\ UNCHANGED seen
    \/ \E p \in Procs, r \in DeleteRequests : handleDelete(p, r) /\ UNCHANGED seen
    \/ \E p \in Procs, fault \in BOOLEAN : CreateExec(p, fault) /\ UNCHANGED seen
    \/ \E p \in Procs, fault \in BOOLEAN : ToggleExec(p, fault) /\ UNCHANGED seen
    \/ \E p \in Procs, fault \in BOOLEAN : DeleteExec(p, fault) /\ UNCHANGED seen

Spec == Init /\ [][Next]_vars

\* the same for the requests that run a statement, with seen kept: for a handler about to run UPDATE or DELETE, the
\* row as it was when its request arrived
Track ==
    seen' = [p \in Procs |->
                IF pc'[p] \notin {"toggle", "delete"} THEN "none"
                ELSE IF pc[p] = pc'[p] THEN seen[p]
                ELSE RowState(table, id'[p])]

\* the requests that reach a statement: POST, with a title that fits or an
\* id that parses
Statements ==
    {r \in Requests :
        /\ r.method = "POST"
        /\ r.route = "/create" =>
              FormValue(r.form, "title") # <<>> /\ Len(FormValue(r.form, "title")) <= TitleWidth
        /\ r.route \in {"/toggle", "/delete"} => ParseInt(FormValue(r.form, "id")).ok}

NextBatch ==
    \/ \E p \in Procs, r \in Statements : handleCreate(p, r) /\ Track
    \/ \E p \in Procs, r \in Statements : handleToggle(p, r) /\ Track
    \/ \E p \in Procs, r \in Statements : handleDelete(p, r) /\ Track
    \/ \E p \in Procs, fault \in BOOLEAN : CreateExec(p, fault) /\ Track
    \/ \E p \in Procs, fault \in BOOLEAN : ToggleExec(p, fault) /\ Track
    \/ \E p \in Procs, fault \in BOOLEAN : DeleteExec(p, fault) /\ Track

SpecBatch == Init /\ [][NextBatch]_vars

\* GET / on both goroutines, over every table MaxId inserts can have left
Tables ==
    {t \in SUBSET [id : 1..MaxId, title : {<<"<", "b">>}, completed : BOOLEAN] :
        \A x, y \in t : x.id = y.id => x = y}

InitIndex ==
    /\ table \in Tables
    /\ seq = MaxId
    /\ high = MaxId
    /\ buf = <<>>
    /\ pc = [p \in Procs |-> "idle"]
    /\ title = [p \in Procs |-> <<>>]
    /\ id = [p \in Procs |-> 0]
    /\ todos = [p \in Procs |-> <<>>]
    /\ k = [p \in Procs |-> 0]
    /\ listed = [p \in Procs |-> FALSE]
    /\ resp = NoResponse
    /\ seen = [p \in Procs |-> "none"]

NextIndex ==
    \/ \E p \in Procs, r \in IndexRequests : handleIndex(p, r)
    \/ \E p \in Procs, fault \in BOOLEAN : ListQuery(p, fault)
    \/ \E p \in Procs : ListEmit(p)
    \/ \E p \in Procs : IndexForm(p)
    \/ \E p \in Procs : IndexRender(p)

SpecIndex == InitIndex /\ [][NextIndex]_vars

\* ================================================================ claims
Flip(r) == [id |-> r.id, title |-> r.title, completed |-> ~r.completed]

Ascending(l) == \A a, b \in DOMAIN l : a < b => l[a].ID < l[b].ID

\* l lists exactly the rows of tbl
Lists(l, tbl) ==
    /\ Len(l) = Cardinality(tbl)
    /\ \A r \in tbl : \E j \in DOMAIN l :
          l[j] = [ID |-> r.id, Title |-> r.title,
                  Completed |-> IF r.completed THEN 1 ELSE 0]

\* the statement of goroutine p runs in this step (and its handler returns)
Runs(p, stmt) == pc[p] = stmt /\ pc'[p] = "idle"

\* what the INSERT of p's title does in this step when it adds the row
CreateAdds(p) ==
    /\ resp'.code = 303
    /\ \E r \in table' :
          /\ r.id \notin Ids(table)
          /\ table' = table \cup {r}
          /\ r.title = title[p]
          /\ r.completed = FALSE
    /\ Ascending(SelectTodos(table'))
    /\ Lists(SelectTodos(table'), table')

\* a POST /create with a non-empty title hands that title to createTodo
TitledPosts ==
    {r \in Requests : r.route = "/create" /\ r.method = "POST"
                        /\ \E kv \in r.form : kv[1] = "title" /\ kv[2] # <<>>}

CreatePassesTitle ==
    \A p \in Procs, r \in TitledPosts :
        (pc[p] = "idle" /\ handleCreate(p, r)) =>
            /\ pc'[p] = "create"
            /\ \E kv \in r.form : kv[1] = "title" /\ title'[p] = kv[2]

C2_ToggleInverts ==
    \A i \in Ids(table) :
        LET once  == toggleTodo(table, i)
            twice == toggleTodo(once.table, i)
        IN  /\ ~once.err
            /\ once.table = (table \ {Row(table, i)}) \cup {Flip(Row(table, i))}
            /\ twice.table = table

\* a POST /toggle has completed one of two rows
C2_Witness ==
    /\ resp.route = "/toggle" /\ resp.code = 303 /\ resp.rows = 1
    /\ \E r, q \in table : r.completed /\ ~q.completed

\* C3: for every id in the table, deleteTodo(id) removes exactly that row: one
\* row fewer, and the list is the former list without it, the rest in order.
C3_DeleteRemovesOne ==
    \A i \in Ids(table) :
        LET after == deleteTodo(table, i)
        IN  /\ ~after.err
            /\ Cardinality(after.table) = Cardinality(table) - 1
            /\ after.table = table \ {Row(table, i)}
            /\ SelectTodos(after.table)
                 = SelectSeq(SelectTodos(table), LAMBDA t : t.ID # i)

\* a POST /delete has removed the middle one of three rows
C3_Witness ==
    /\ resp.route = "/delete" /\ resp.code = 303 /\ resp.rows = 1
    /\ Ids(table) = {1, 3}
    /\ Len(SelectTodos(table)) = 2
    /\ SelectTodos(table)[1].ID = 1 /\ SelectTodos(table)[2].ID = 3

\* C4: after every step the rows have pairwise distinct ids, and a row that a
\* step adds has an id above every id an INSERT has given before, the ids of
\* deleted rows included.
C4_IdsNeverReused ==
    [][/\ \A x, y \in table' : x.id = y.id => x = y
       /\ \A r \in table' :
             r.id \notin Ids(table) => (r.id > high /\ \A q \in table : r.id > q.id)]_vars

\* a row was created after a row with a lower id was deleted
C4_Witness ==
    /\ resp.route = "/create" /\ resp.rows = 1
    /\ \E r \in table : r.id = high /\ r.id - 1 \notin Ids(table) /\ r.id > 1
    /\ \E q \in table : q.id < high - 1

\* base-10 integer: optional sign, then digits, at least one
IsDecimal(s) ==
    LET d == IF s # <<>> /\ s[1] \in {"+", "-"} THEN Tail(s) ELSE s
    IN  d # <<>> /\ \A j \in DOMAIN d : d[j] \in {"0", "1", "2", "3", "4", "5", "6", "7", "8", "9"}

\* C5: a POST to /toggle or /delete whose id field is no base-10 integer (or is
\* empty or missing) is answered 400, runs no statement, leaves the table.
InvalidIdPosts ==
    {r \in Requests : r.route \in {"/toggle", "/delete"} /\ r.method = "POST"
                        /\ \A kv \in r.form : kv[1] = "id" => ~IsDecimal(kv[2])}

C5_InvalidId ==
    [][\A p \in Procs, r \in InvalidIdPosts :
          (pc[p] = "idle" /\ (handleToggle(p, r) \/ handleDelete(p, r))) =>
              /\ resp'.code = 400 /\ resp'.stmts = 0
              /\ pc'[p] = "idle"
              /\ UNCHANGED <<table, seq>>]_vars

\* a POST /delete with a bad id was answered 400 while rows exist
C5_Witness ==
    /\ resp.route = "/delete" /\ resp.code = 400 /\ resp.stmts = 0
    /\ table # {}

\* C6: a request to /create, /toggle or /delete with a method other than POST
\* is answered 303 to / and leaves the table, whatever fields it carries.
NonPosts ==
    {r \in Requests : r.route \in {"/create", "/toggle", "/delete"} /\ r.method # "POST"}

C6_NonPostRedirects ==
    [][\A p \in Procs, r \in NonPosts :
          (/\ pc[p] = "idle"
           /\ (handleCreate(p, r) \/ handleToggle(p, r) \/ handleDelete(p, r))) =>
              /\ resp'.code = 303 /\ resp'.loc = "/" /\ resp'.stmts = 0
              /\ pc'[p] = "idle"
              /\ UNCHANGED <<table, seq>>]_vars

\* a non-POST request to /toggle was redirected while rows exist
C6_Witness ==
    /\ resp.route = "/toggle" /\ resp.method = "other" /\ resp.code = 303
    /\ table # {}

\* C7: a POST /create whose title is empty or missing inserts nothing and is
\* answered 303 to /, never an error status.
EmptyTitlePosts ==
    {r \in Requests : r.route = "/create" /\ r.method = "POST"
                        /\ \A kv \in r.form : kv[1] = "title" => kv[2] = <<>>}

C7_EmptyTitle ==
    [][\A p \in Procs, r \in EmptyTitlePosts :
          (pc[p] = "idle" /\ handleCreate(p, r)) =>
              /\ resp'.code = 303 /\ resp'.loc = "/" /\ resp'.stmts = 0
              /\ pc'[p] = "idle"
              /\ UNCHANGED <<table, seq>>]_vars

\* a POST /create without a title was redirected, no statement run
C7_Witness ==
    /\ resp.route = "/create" /\ resp.method = "POST"
    /\ resp.code = 303 /\ resp.stmts = 0

\* C8: toggleTodo and deleteTodo for an id that matches no row leave the table
\* as it is and return no error: unless the engine itself fails, the handler
\* answers 303.
C8_NoMatchNoOp ==
    [][\A p \in Procs :
          ((Runs(p, "toggle") \/ Runs(p, "delete")) /\ id[p] \notin Ids(table)) =>
              /\ table' = table
              /\ ~resp'.fault => (resp'.code = 303 /\ resp'.loc = "/")]_vars

\* a POST /toggle for a deleted id was answered 303, no row affected
C8_Witness ==
    /\ resp.route = "/toggle" /\ resp.code = 303
    /\ resp.stmts = 1 /\ resp.rows = 0
    /\ table # {} /\ Cardinality(table) < high

\* what one UPDATE or DELETE makes of a row in state s
Outcome(stmt, s) ==
    IF s = "absent" \/ stmt = "delete" THEN "absent"
    ELSE IF s = "open" THEN "done" ELSE "open"

\* no other handler is about to run a statement on the id of p
CommitsLast(p) ==
    \A q \in Procs \ {p} : ~(pc[q] \in {"toggle", "delete"} /\ id[q] = id[p])

\* C9 as stated (last write wins): when the last of the concurrent toggle and
\* delete statements on an id commits, the row is what that statement alone
\* makes of the row its request was issued against.
C9_LastWriteWins ==
    [][\A p \in Procs :
          ((Runs(p, "toggle") \/ Runs(p, "delete")) /\ ~resp'.fault /\ CommitsLast(p)) =>
              RowState(table', id[p]) = Outcome(pc[p], seen[p])]_vars

\* C9, amended: every statement takes effect in one step on the table as the
\* statements committed before it left it, whatever other handlers are in
\* flight: the row it names becomes what the statement makes of that row, and
\* every other row stays; so the table is always the one the statements give
\* when applied one at a time in commit order.
C9_CommitOrder ==
    [][\A p \in Procs :
          ((Runs(p, "toggle") \/ Runs(p, "delete")) /\ ~resp'.fault) =>
              /\ RowState(table', id[p]) = Outcome(pc[p], RowState(table, id[p]))
              /\ \A r \in table : r.id # id[p] => r \in table'
              /\ \A r \in table' : r \in table \/ (r.id = id[p] /\ Flip(r) \in table)]_vars

\* a statement has committed on a row that another handler, still in flight,
\* saw in a different state
C9_Witness ==
    \E p \in Procs :
        /\ pc[p] \in {"toggle", "delete"}
        /\ seen[p] \in {"open", "done"}
        /\ seen[p] # RowState(table, id[p])
        /\ resp.route \in {"/toggle", "/delete"} /\ resp.rows = 1

\* the page of a list result: its row fragments in order, then the create form
Page(l) == [j \in DOMAIN l |-> RowFragment(l[j])] \o <<FormFragment>>

\* C10: the content a GET / hands to the renderer is the page of its own list
\* result (the rows in ascending id order, then one create form) and nothing
\* else, whatever other requests are in flight.  Stated for list results that
\* have rows; for none, listTodos prints a placeholder in their place.
C10_OwnContent ==
    [][\A p \in Procs :
          (Runs(p, "render") /\ listed[p] /\ Len(todos[p]) > 0) =>
              /\ Ascending(todos[p])
              /\ Content = Page(todos[p])]_vars

====
